---- MODULE Spec2Model ----
(***************************************************************************)
(* Model of the privateGPT pipeline of 2-ollama-privateGPT-chat-with-docs: *)
(* simple_ingest.py (load_documents, chunk_documents,                      *)
(* save_processed_documents) and simple_privateGPT.py                      *)
(* (load_processed_documents, simple_search, query_ollama, main).          *)
(*                                                                         *)
(* A Python str is a sequence of one-character strings.  A float score     *)
(* overlap / len(query_words) is the exact fraction <<overlap, len>>;      *)
(* scores are compared by cross-multiplication.                            *)
(***************************************************************************)
EXTENDS Integers, Sequences, FiniteSets, TLC

VARIABLES
    \* simple_search
    query, chunks, max_results, results, spc,
    \* chunk_documents
    documents, chunk_size, doc_chunks, cpc,
    \* save_processed_documents / load_processed_documents
    saved_chunks, output_file, loaded_chunks, ppc,
    \* simple_privateGPT.main
    pc, OLLAMA_AVAILABLE, processed_file, chat_chunks, line, search_results,
    response, raised, out,
    \* load_documents
    all_files, file_pos, loaded_documents, open_handles, doc, lout, lpc

searchVars == <<query, chunks, max_results, results, spc>>
chunkVars == <<documents, chunk_size, doc_chunks, cpc>>
persistVars == <<saved_chunks, output_file, loaded_chunks, ppc>>
chatVars == <<pc, OLLAMA_AVAILABLE, processed_file, chat_chunks, line,
              search_results, response, raised, out>>
loadVars == <<all_files, file_pos, loaded_documents, open_handles, doc, lout,
              lpc>>
vars == <<searchVars, chunkVars, persistVars, chatVars, loadVars>>

----------------------------------------------------------------------------
(* Bounds of the model *)

MaxQueryLen == 3
MaxChunks == 3
MaxResults == 3
MaxNegResults == 2
MaxDocs == 2
MaxPad == 1
MaxBodyExtra == 2
MaxSaved == 3
MaxChatChunks == 2
MaxFiles == 3

----------------------------------------------------------------------------
(* Python str primitives *)

\* characters str.strip() and str.split() treat as whitespace
WS == {" ", "\n", "\t", "\r"}

UpperCase == <<"A", "B", "C", "D", "E", "F", "G", "H", "I", "J", "K", "L", "M",
               "N", "O", "P", "Q", "R", "S", "T", "U", "V", "W", "X", "Y", "Z">>
LowerCase == <<"a", "b", "c", "d", "e", "f", "g", "h", "i", "j", "k", "l", "m",
               "n", "o", "p", "q", "r", "s", "t", "u", "v", "w", "x", "y", "z">>

LowerChar(c) ==
    IF \E k \in 1..26 : UpperCase[k] = c
    THEN LowerCase[CHOOSE k \in 1..26 : UpperCase[k] = c]
    ELSE c

\* str.lower()
lower(s) == [i \in 1..Len(s) |-> LowerChar(s[i])]

RECURSIVE lstrip(_)
lstrip(s) == IF s = <<>> \/ Head(s) \notin WS THEN s ELSE lstrip(Tail(s))

RECURSIVE rstrip(_)
rstrip(s) ==
    IF s = <<>> \/ s[Len(s)] \notin WS THEN s
    ELSE rstrip(SubSeq(s, 1, Len(s) - 1))

\* str.strip()
strip(s) == rstrip(lstrip(s))

RECURSIVE SplitScan(_, _, _, _)
SplitScan(s, i, cur, acc) ==
    IF i > Len(s)
    THEN IF cur = <<>> THEN acc ELSE Append(acc, cur)
    ELSE IF s[i] \in WS
         THEN SplitScan(s, i + 1, <<>>,
                        IF cur = <<>> THEN acc ELSE Append(acc, cur))
         ELSE SplitScan(s, i + 1, Append(cur, s[i]), acc)

\* str.split() without a separator: runs of whitespace separate, no empty words
split(s) == SplitScan(s, 1, <<>>, <<>>)

\* set(sequence)
ToSet(s) == {s[i] : i \in DOMAIN s}

Min(a, b) == IF a < b THEN a ELSE b
Max(a, b) == IF a > b THEN a ELSE b

\* s[:n]
SliceTo_Plus(s, n) ==
    LET stop == IF n < 0 THEN Max(Len(s) + n, 0) ELSE Min(n + 1, Len(s))
    IN SubSeq(s, 1, stop)

SliceTo(s, n) ==
    LET stop == IF n < 0 THEN Max(Len(s) + n, 0) ELSE Min(n, Len(s))
    IN SubSeq(s, 1, stop)

----------------------------------------------------------------------------
(* simple_search *)

\* score = overlap / len(query_words)
Score_ByChunk(overlap, query_words, chunk_words) ==
    <<overlap, Cardinality(chunk_words)>>

Score(overlap, query_words, chunk_words) ==
    <<overlap, Cardinality(query_words)>>

\* x[1] > y[1] for two scores
ScoreGT(a, b) == a[1] * b[2] > b[1] * a[2]

\* the loop over chunks; pos records the position of the chunk in the input
RECURSIVE ScoreChunks(_, _, _, _)
ScoreChunks(query_words, cs, i, acc) ==
    IF i > Len(cs) THEN acc
    ELSE LET chunk_words == ToSet(split(lower(cs[i])))
             overlap == Cardinality(query_words \cap chunk_words)
         IN IF overlap > 0
            THEN ScoreChunks(query_words, cs, i + 1,
                     Append(acc, [chunk |-> cs[i],
                                  score |-> Score(overlap, query_words, chunk_words),
                                  pos |-> i]))
            ELSE ScoreChunks(query_words, cs, i + 1, acc)

\* place of r in an already sorted list
InsertAt_Unstable(sorted, r) ==
    IF \E k \in 1..Len(sorted) : ~ScoreGT(sorted[k].score, r.score)
    THEN CHOOSE k \in 1..Len(sorted) :
            /\ ~ScoreGT(sorted[k].score, r.score)
            /\ \A j \in 1..(k - 1) : ScoreGT(sorted[j].score, r.score)
    ELSE Len(sorted) + 1

InsertAt(sorted, r) ==
    IF \E k \in 1..Len(sorted) : ScoreGT(r.score, sorted[k].score)
    THEN CHOOSE k \in 1..Len(sorted) :
            /\ ScoreGT(r.score, sorted[k].score)
            /\ \A j \in 1..(k - 1) : ~ScoreGT(r.score, sorted[j].score)
    ELSE Len(sorted) + 1

RECURSIVE SortDesc(_, _, _)
SortDesc(rs, i, sorted) ==
    IF i > Len(rs) THEN sorted
    ELSE LET k == InsertAt(sorted, rs[i])
         IN SortDesc(rs, i + 1,
                SubSeq(sorted, 1, k - 1) \o <<rs[i]>> \o SubSeq(sorted, k, Len(sorted)))

\* results.sort(key=lambda x: x[1], reverse=True): stable, descending
sort_reverse(rs) == SortDesc(rs, 1, <<>>)

simple_search(q, cs, m) ==
    LET query_words == ToSet(split(lower(q)))
    IN SliceTo(sort_reverse(ScoreChunks(query_words, cs, 1, <<>>)), m)

----------------------------------------------------------------------------
(* More str primitives *)

\* c * n
Rep(c, n) == [i \in 1..n |-> c]

StartsAt(s, i, sep) ==
    /\ i + Len(sep) - 1 <= Len(s)
    /\ SubSeq(s, i, i + Len(sep) - 1) = sep

\* s.find(sep, from), positions counted from 1; 0 when sep does not occur
Find(s, sep, from) ==
    LET occ == {i \in from..Len(s) : StartsAt(s, i, sep)}
    IN IF occ = {} THEN 0 ELSE CHOOSE i \in occ : \A j \in occ : i <= j

RECURSIVE SplitSepFrom(_, _, _)
SplitSepFrom(s, sep, from) ==
    LET at == Find(s, sep, from)
    IN IF at = 0 THEN <<SubSeq(s, from, Len(s))>>
       ELSE <<SubSeq(s, from, at - 1)>> \o SplitSepFrom(s, sep, at + Len(sep))

\* s.split(sep): the pieces between the occurrences of sep, leftmost first,
\* occurrences not overlapping
split_sep(s, sep) == SplitSepFrom(s, sep, 1)

RECURSIVE join(_, _)
\* sep.join(parts)
join(parts, sep) ==
    IF parts = <<>> THEN <<>>
    ELSE IF Len(parts) = 1 THEN parts[1]
         ELSE parts[1] \o sep \o join(Tail(parts), sep)

\* s.replace(old, new)
replace(s, old, new) == join(split_sep(s, old), new)

Digits == <<"0", "1", "2", "3", "4", "5", "6", "7", "8", "9">>

RECURSIVE IntToStr(_)
\* f"{n}" for n >= 0
IntToStr(n) ==
    IF n < 10 THEN <<Digits[n + 1]>>
    ELSE IntToStr(n \div 10) \o <<Digits[(n % 10) + 1]>>

\* what a text-mode read returns for the characters of the file: universal
\* newlines turn "\r\n" and a lone "\r" into "\n"
UniversalNewlines(s) ==
    replace(replace(s, <<"\r", "\n">>, <<"\n">>), <<"\r">>, <<"\n">>)

----------------------------------------------------------------------------
(* chunk_documents *)

DefaultChunkSize == 1000
MinChunkLen == 50

KeepChunk_AtLeast(chunk) == Len(strip(chunk)) >= MinChunkLen

KeepChunk_NonEmpty(chunk) == Len(strip(chunk)) > 0

\* if len(chunk.strip()) > 50
KeepChunk(chunk) == Len(strip(chunk)) > MinChunkLen

\* range(0, n, step) for step >= 1
Range(n, step) == [k \in 1..((n + step - 1) \div step) |-> (k - 1) * step]

\* s[i:j] for 0 <= i <= j
Slice(s, i, j) == SubSeq(s, i + 1, Min(j, Len(s)))

\* the chunks the inner loop appends for one document:
\* for i in range(0, len(doc), chunk_size): chunk = doc[i:i + chunk_size]
ChunkDoc(d, size) ==
    LET starts == Range(Len(d), size)
        windows == [k \in DOMAIN starts |-> Slice(d, starts[k], starts[k] + size)]
    IN SelectSeq(windows, KeepChunk)

RECURSIVE ChunkDocs(_, _, _, _)
ChunkDocs(docs, n, size, acc) ==
    IF n > Len(docs) THEN acc
    ELSE ChunkDocs(docs, n + 1, size, acc \o ChunkDoc(docs[n], size))

chunk_documents(docs, size) == ChunkDocs(docs, 1, size, <<>>)

----------------------------------------------------------------------------
(* save_processed_documents and load_processed_documents *)

ChunkMarker == <<"=", "=", "=", " ", "C", "H", "U", "N", "K">>
SeparatorLen == 50
Separator == Rep("=", SeparatorLen)

\* f"=== CHUNK {i+1} ===\n", i counted from 0
ChunkHeader(i) == ChunkMarker \o <<" ">> \o IntToStr(i + 1) \o <<" ", "=", "=", "=", "\n">>

RECURSIVE WriteChunks(_, _, _)
WriteChunks(cs, i, f) ==
    IF i >= Len(cs) THEN f
    ELSE WriteChunks(cs, i + 1,
             f \o ChunkHeader(i) \o cs[i + 1]
               \o <<"\n", "\n">> \o Separator \o <<"\n", "\n">>)

\* the characters in the file after save_processed_documents(cs)
save_processed_documents(cs) == WriteChunks(cs, 0, <<>>)

\* '\n'.join(lines[1:]).strip(), then .replace('='*50, '').strip()
ChunkContent_NoReplace(part) ==
    strip(join(Tail(split_sep(part, <<"\n">>)), <<"\n">>))

ChunkContent(part) ==
    LET lines == split_sep(part, <<"\n">>)
        chunk_content == strip(join(Tail(lines), <<"\n">>))
    IN strip(replace(chunk_content, Separator, <<>>))

RECURSIVE ParseParts(_, _, _)
ParseParts(chunk_parts, n, acc) ==
    IF n > Len(chunk_parts) THEN acc
    ELSE LET chunk_content == ChunkContent(chunk_parts[n])
         IN ParseParts(chunk_parts, n + 1,
                IF chunk_content # <<>> THEN Append(acc, chunk_content) ELSE acc)

\* a path at which no file exists
NoFile == <<"<absent>">>

\* the chunks load_processed_documents returns for the file's characters
load_processed_documents(f) ==
    IF f = NoFile THEN <<>>
    ELSE LET content == UniversalNewlines(f)
             chunk_parts == split_sep(content, ChunkMarker)
         IN ParseParts(chunk_parts, 2, <<>>)

----------------------------------------------------------------------------
(* simple_privateGPT.main and query_ollama *)

DefaultMaxResults == 4

Exit == <<"e", "x", "i", "t">>

\* the outcomes of a call of the external service or of input()
Outcomes == {"ok", "Exception", "KeyboardInterrupt"}

\* query_ollama for an outcome of Ollama(model) / llm.invoke(prompt):
\* what it returns, or the exception that leaves it
query_ollama_Uncaught(available, outcome) ==
    IF ~available
    THEN [kind |-> "return", value |-> "OllamaNotAvailable"]
    ELSE IF outcome = "ok"
         THEN [kind |-> "return", value |-> "ModelAnswer"]
         ELSE [kind |-> "raise", value |-> outcome]

query_ollama(available, outcome) ==
    IF ~available
    THEN [kind |-> "return", value |-> "OllamaNotAvailable"]
    ELSE CASE outcome = "ok" -> [kind |-> "return", value |-> "ModelAnswer"]
           [] outcome = "Exception" ->
                [kind |-> "return", value |-> "ErrorQueryingOllama"]
           [] OTHER -> [kind |-> "raise", value |-> outcome]

\* if query.lower() == 'exit'
IsExit_CaseSensitive(q) == q = Exit

IsExit(q) == lower(q) = Exit

\* the except clauses of the loop: what is printed and where control goes
LoopHandler(exc) ==
    IF exc = "KeyboardInterrupt"
    THEN [out |-> <<"Goodbye">>, pc |-> "done"]
    ELSE [out |-> <<"Error">>, pc |-> "prompt"]

\* main up to its first call of the model service: load the chunks, return
\* when there are none or when the client library is absent
MainStart ==
    /\ pc = "start"
    /\ LET loaded == load_processed_documents(processed_file)
           printed == <<"Starting", "LoadingProcessed">>
                      \o (IF processed_file = NoFile
                          THEN <<"ProcessedFileNotFound", "PleaseRunIngest">>
                          ELSE <<>>)
       IN /\ chat_chunks' = loaded
          /\ IF loaded = <<>>
             THEN /\ out' = printed
                  /\ pc' = "done"
             ELSE IF OLLAMA_AVAILABLE
                  THEN /\ out' = printed \o <<"LoadedChunks", "Connecting">>
                       /\ pc' = "connect"
                  ELSE /\ out' = printed \o <<"LoadedChunks", "Connecting",
                                              "OllamaNotAvailable">>
                       /\ pc' = "done"
    /\ UNCHANGED <<OLLAMA_AVAILABLE, processed_file, line, search_results,
                   response, raised>>
    /\ UNCHANGED <<searchVars, chunkVars, persistVars, loadVars>>

\* the connectivity test Ollama(model="mistral").invoke("Hello")
MainConnect ==
    /\ pc = "connect"
    /\ \E outcome \in Outcomes :
          /\ raised' = IF outcome = "ok" THEN "none" ELSE outcome
          /\ CASE outcome = "ok" ->
                    /\ out' = <<"ConnectionSuccessful", "Ready">>
                    /\ pc' = "prompt"
               [] outcome = "Exception" ->
                    /\ out' = <<"ConnectionFailed", "MakeSureOllamaRuns">>
                    /\ pc' = "done"
               [] OTHER ->
                    /\ out' = <<>>
                    /\ pc' = "aborted"
    /\ UNCHANGED <<OLLAMA_AVAILABLE, processed_file, chat_chunks, line,
                   search_results, response>>
    /\ UNCHANGED <<searchVars, chunkVars, persistVars, loadVars>>

\* one loop iteration from input() to the call of query_ollama (or to the
\* break or continue that ends the iteration before it)
ReadInput(l, outcome) ==
    /\ pc = "prompt"
    /\ raised' = IF outcome = "ok" THEN "none" ELSE outcome
    /\ IF outcome # "ok"
       THEN /\ out' = LoopHandler(outcome).out
            /\ pc' = LoopHandler(outcome).pc
            /\ UNCHANGED <<line, search_results>>
       ELSE LET q == strip(l)
            IN /\ line' = l
               /\ IF IsExit(q)
                  THEN /\ out' = <<"Goodbye">>
                       /\ pc' = "done"
                       /\ UNCHANGED search_results
                  ELSE IF q = <<>>
                  THEN /\ out' = <<>>
                       /\ pc' = "prompt"
                       /\ UNCHANGED search_results
                  ELSE LET found == simple_search(q, chat_chunks, DefaultMaxResults)
                       IN /\ search_results' = found
                          /\ IF found = <<>>
                             THEN /\ out' = <<"Searching", "NoRelevantInformation">>
                                  /\ pc' = "prompt"
                             ELSE /\ out' = <<"Searching", "Generating">>
                                  /\ pc' = "invoke"
    /\ UNCHANGED <<OLLAMA_AVAILABLE, processed_file, chat_chunks, response>>
    /\ UNCHANGED <<searchVars, chunkVars, persistVars, loadVars>>

\* the rest of the iteration: query_ollama(prompt) and the display of the
\* answer
QueryOllama(outcome) ==
    /\ pc = "invoke"
    /\ raised' = IF outcome = "ok" THEN "none" ELSE outcome
    /\ LET r == query_ollama(OLLAMA_AVAILABLE, outcome)
       IN IF r.kind = "return"
          THEN /\ response' = r.value
               /\ out' = <<"Question", "Answer", r.value, "ResponseTime",
                           "FoundSections">>
               /\ pc' = "prompt"
          ELSE /\ out' = LoopHandler(r.value).out
               /\ pc' = LoopHandler(r.value).pc
               /\ UNCHANGED response
    /\ UNCHANGED <<OLLAMA_AVAILABLE, processed_file, chat_chunks, line,
                   search_results>>
    /\ UNCHANGED <<searchVars, chunkVars, persistVars, loadVars>>

----------------------------------------------------------------------------
(* load_documents *)

\* what happens to one file: nothing fails, opening it fails, or reading it
\* (extracting the text of a page) fails
FileOutcomes == {"ok", "open_fails", "read_fails"}

\* one iteration of the loop over all_files, with its try / except
ProcessFile(outcome) ==
    /\ lpc = "loop"
    /\ file_pos < Len(all_files)
    /\ LET f == file_pos + 1
       IN /\ file_pos' = f
          /\ IF all_files[f] = "pdf"
             THEN CASE outcome = "open_fails" ->
                         \* import fitz or fitz.open raises
                         /\ UNCHANGED <<open_handles, doc, loaded_documents>>
                         /\ lout' = <<"ErrorProcessing">>
                    [] outcome = "read_fails" ->
                         \* page.get_text() raises: doc.close() is not reached
                         /\ open_handles' = open_handles \cup {f}
                         /\ doc' = f
                         /\ UNCHANGED loaded_documents
                         /\ lout' = <<"ErrorProcessing">>
                    [] OTHER ->
                         \* doc.close() after the pages
                         /\ open_handles' = open_handles
                         /\ doc' = f
                         /\ loaded_documents' = Append(loaded_documents, f)
                         /\ lout' = <<>>
             ELSE CASE outcome = "open_fails" ->
                         /\ UNCHANGED <<open_handles, doc, loaded_documents>>
                         /\ lout' = <<"ErrorProcessing">>
                    [] outcome = "read_fails" ->
                         \* the with statement closes f
                         /\ UNCHANGED <<open_handles, doc, loaded_documents>>
                         /\ lout' = <<"ErrorProcessing">>
                    [] OTHER ->
                         /\ UNCHANGED <<open_handles, doc>>
                         /\ loaded_documents' = Append(loaded_documents, f)
                         /\ lout' = <<>>
    /\ UNCHANGED <<all_files, lpc>>
    /\ UNCHANGED <<searchVars, chunkVars, persistVars, chatVars>>

\* return documents: the local doc goes out of scope
LoadReturn ==
    /\ lpc = "loop"
    /\ file_pos = Len(all_files)
    /\ lpc' = "returned"
    /\ doc' = 0
    /\ lout' = <<>>
    /\ UNCHANGED <<all_files, file_pos, loaded_documents, open_handles>>
    /\ UNCHANGED <<searchVars, chunkVars, persistVars, chatVars>>

\* the runtime may finalize a PDF document no variable refers to any more,
\* which closes it; when it does so is not determined by the program
Finalize ==
    /\ \E h \in open_handles :
          /\ h # doc
          /\ open_handles' = open_handles \ {h}
    /\ lout' = <<>>
    /\ UNCHANGED <<all_files, file_pos, loaded_documents, doc, lpc>>
    /\ UNCHANGED <<searchVars, chunkVars, persistVars, chatVars>>

----------------------------------------------------------------------------
(* Inputs of the retriever *)

RECURSIVE SeqsUpTo(_, _)
SeqsUpTo(S, n) ==
    IF n = 0 THEN {<<>>}
    ELSE LET shorter == SeqsUpTo(S, n - 1)
         IN shorter \cup {Append(s, x) : s \in {t \in shorter : Len(t) = n - 1}, x \in S}

QueryAlphabet == {"a", "A", "b", " "}

ChunkPool == {
    <<"a">>,
    <<"b">>,
    <<"a", " ", "b">>,
    <<"B", "\n", "c">>,
    <<"c", "\t">>
    }

----------------------------------------------------------------------------
(* Values of the variables a specification does not use *)

SearchIdle ==
    /\ query = <<>> /\ chunks = <<>> /\ max_results = 0
    /\ results = <<>> /\ spc = "idle"

ChunkIdle ==
    /\ documents = <<>> /\ chunk_size = 1 /\ doc_chunks = <<>> /\ cpc = "idle"

PersistIdle ==
    /\ saved_chunks = <<>> /\ output_file = <<>> /\ loaded_chunks = <<>>
    /\ ppc = "idle"

ChatIdle ==
    /\ pc = "idle" /\ OLLAMA_AVAILABLE = FALSE /\ processed_file = <<>>
    /\ chat_chunks = <<>> /\ line = <<>> /\ search_results = <<>>
    /\ response = "" /\ raised = "none" /\ out = <<>>

LoadIdle ==
    /\ all_files = <<>> /\ file_pos = 0 /\ loaded_documents = <<>>
    /\ open_handles = {} /\ doc = 0 /\ lout = <<>> /\ lpc = "idle"

----------------------------------------------------------------------------
(* Specification of the retriever: one call of simple_search *)

SearchInit ==
    /\ query \in SeqsUpTo(QueryAlphabet, MaxQueryLen)
    /\ chunks \in SeqsUpTo(ChunkPool, MaxChunks)
    /\ max_results \in (0 - MaxNegResults)..MaxResults
    /\ results = <<>>
    /\ spc = "call"
    /\ ChunkIdle /\ PersistIdle /\ ChatIdle /\ LoadIdle

CallSimpleSearch ==
    /\ spc = "call"
    /\ results' = simple_search(query, chunks, max_results)
    /\ spc' = "returned"
    /\ UNCHANGED <<query, chunks, max_results>>
    /\ UNCHANGED <<chunkVars, persistVars, chatVars, loadVars>>

SearchNext == CallSimpleSearch

SpecSearch == SearchInit /\ [][SearchNext]_vars

----------------------------------------------------------------------------
(* Properties of the retriever *)

\* the words of a string: its maximal runs of non-whitespace, lowercased
WordsOf(s) ==
    {lower(SubSeq(s, p[1], p[2])) :
        p \in {r \in (1..Len(s)) \X (1..Len(s)) :
                 /\ r[1] <= r[2]
                 /\ \A k \in r[1]..r[2] : s[k] \notin WS
                 /\ (r[1] = 1 \/ s[r[1] - 1] \in WS)
                 /\ (r[2] = Len(s) \/ s[r[2] + 1] \in WS)}}

Overlap(q, c) == Cardinality(WordsOf(q) \cap WordsOf(c))

Matching == {j \in DOMAIN chunks : Overlap(query, chunks[j]) > 0}

\* C1: every returned pair has score = overlap / |words(query)| > 0, and no
\* chunk of the input whose overlap with the query is 0 is returned.
C1_ScoreIsOverlapFraction ==
    spc = "returned" =>
        /\ \A i \in DOMAIN results :
              /\ results[i].pos \in DOMAIN chunks
              /\ results[i].chunk = chunks[results[i].pos]
              /\ results[i].score = <<Overlap(query, results[i].chunk),
                                      Cardinality(WordsOf(query))>>
              /\ results[i].score[1] > 0
              /\ results[i].score[2] > 0
        /\ \A j \in DOMAIN chunks :
              Overlap(query, chunks[j]) = 0 =>
                 \A i \in DOMAIN results : results[i].chunk # chunks[j]

C1_Witness ==
    /\ spc = "returned"
    /\ \E i \in DOMAIN results : results[i].score = <<1, 2>>
    /\ \E j \in DOMAIN chunks : Overlap(query, chunks[j]) = 0

\* C2 as stated: for every max_results, the number of returned pairs is
\* min(max_results, number of chunks with overlap > 0).
C2_CountIsMin ==
    spc = "returned" => Len(results) = Min(max_results, Cardinality(Matching))

\* C2 amended: for every max_results >= 0 the number of returned pairs is
\* min(max_results, number of chunks with overlap > 0); an empty query
\* returns the empty sequence and no score has a zero denominator.
C2_CountIsMinNonNegative ==
    spc = "returned" =>
        /\ max_results >= 0 =>
              Len(results) = Min(max_results, Cardinality(Matching))
        /\ WordsOf(query) = {} => results = <<>>
        /\ \A i \in DOMAIN results : results[i].score[2] # 0

C2_Witness ==
    /\ spc = "returned"
    /\ max_results > 0
    /\ Cardinality(Matching) > max_results
    /\ Len(results) = max_results

----------------------------------------------------------------------------
(* Specification of the chunker: one call of chunk_documents *)

FoxDoc == <<"T", "h", "e", " ", "q", "u", "i", "c", "k", " ", "b", "r", "o",
            "w", "n", " ", "f", "o", "x", " ", "j", "u", "m", "p", "s", " ",
            "o", "v", "e", "r", " ", "t", "h", "e", " ", "l", "a", "z", "y",
            " ", "d", "o", "g">>

\* n characters of text with whitespace inside
Body(n) == [i \in 1..n |-> IF i = 2 /\ n >= 3 THEN " " ELSE "x"]

BodyLens == (MinChunkLen - 1)..(MinChunkLen + MaxBodyExtra)

DocPool ==
    {Rep(" ", a) \o Body(b) \o Rep("\n", c) :
        a \in 0..MaxPad, b \in BodyLens, c \in 0..MaxPad}
    \cup {Body(b) \o <<"\n">> \o Body(b) : b \in BodyLens}
    \cup {FoxDoc}

ChunkSizes == {1, 26, MinChunkLen + 1, MinChunkLen + 2, DefaultChunkSize}

ChunkInit ==
    /\ documents \in SeqsUpTo(DocPool, MaxDocs)
    /\ chunk_size \in ChunkSizes
    /\ doc_chunks = <<>>
    /\ cpc = "call"
    /\ SearchIdle /\ PersistIdle /\ ChatIdle /\ LoadIdle

CallChunkDocuments ==
    /\ cpc = "call"
    /\ doc_chunks' = chunk_documents(documents, chunk_size)
    /\ cpc' = "returned"
    /\ UNCHANGED <<documents, chunk_size>>
    /\ UNCHANGED <<searchVars, persistVars, chatVars, loadVars>>

ChunkNext == CallChunkDocuments

SpecChunk == ChunkInit /\ [][ChunkNext]_vars

----------------------------------------------------------------------------
(* Properties of the chunker *)

NumWindows(d, size) == (Len(d) + size - 1) \div size

\* the k-th window doc[(k-1)*C : k*C], k = 1, 2, ...
Window(d, size, k) == SubSeq(d, (k - 1) * size + 1, Min(k * size, Len(d)))

\* length of w without its leading and trailing whitespace
StrippedLen(w) ==
    LET text == {i \in DOMAIN w : w[i] \notin WS}
    IN IF text = {} THEN 0
       ELSE (CHOOSE i \in text : \A j \in text : j <= i)
            - (CHOOSE i \in text : \A j \in text : i <= j) + 1

\* the windows that are to be retained, as <<document, window>> positions
Retained ==
    {p \in (DOMAIN documents) \X (1..(MinChunkLen + MaxBodyExtra) * 3) :
        /\ p[2] <= NumWindows(documents[p[1]], chunk_size)
        /\ StrippedLen(Window(documents[p[1]], chunk_size, p[2])) > 50}

\* the number of retained windows up to and including p, in document order
\* and then offset order
Rank(p) ==
    Cardinality({r \in Retained :
                    r[1] < p[1] \/ (r[1] = p[1] /\ r[2] <= p[2])})

\* C4: chunk_documents returns, in document order and then offset order,
\* exactly the windows doc[k*C : (k+1)*C] whose stripped length is greater
\* than 50, unstripped; the windows of a document cover it without overlap.
C4_RetainedWindows ==
    cpc = "returned" =>
        /\ Len(doc_chunks) = Cardinality(Retained)
        /\ \A p \in Retained :
              doc_chunks[Rank(p)] = Window(documents[p[1]], chunk_size, p[2])
        /\ \A i \in DOMAIN doc_chunks : StrippedLen(doc_chunks[i]) > 50
        /\ \A n \in DOMAIN documents :
              \A q \in DOMAIN documents[n] :
                 LET k == ((q - 1) \div chunk_size) + 1
                 IN /\ k \in 1..NumWindows(documents[n], chunk_size)
                    /\ Window(documents[n], chunk_size, k)[((q - 1) % chunk_size) + 1]
                          = documents[n][q]

C4_Witness ==
    /\ cpc = "returned"
    /\ Len(documents) = 2
    /\ Len(doc_chunks) = 2
    /\ NumWindows(documents[1], chunk_size) = 3
    /\ doc_chunks[2] = Window(documents[1], chunk_size, 2)
    /\ StrippedLen(doc_chunks[2]) < Len(doc_chunks[2])
    /\ StrippedLen(Window(documents[2], chunk_size, 1)) = 50

\* C6 as stated: chunking the single document "The quick brown fox jumps
\* over the lazy dog" with chunk size 1000 yields exactly one chunk, the
\* full document.
C6_FoxDocOneChunk ==
    (cpc = "returned" /\ documents = <<FoxDoc>> /\ chunk_size = 1000)
        => doc_chunks = <<FoxDoc>>

\* C6 amended: chunking that document with chunk size 1000 yields no chunk,
\* its one window having 43 characters, not more than 50.
C6_FoxDocNoChunk ==
    (cpc = "returned" /\ documents = <<FoxDoc>> /\ chunk_size = 1000)
        => doc_chunks = <<>>

C6_Witness ==
    /\ cpc = "returned"
    /\ documents = <<FoxDoc>>
    /\ chunk_size = 1000
    /\ Len(FoxDoc) = 43

----------------------------------------------------------------------------
(* Specification of persistence: save_processed_documents, then            *)
(* load_processed_documents on the file it wrote                           *)

\* chunks chunk_documents can return: more than 50 characters when stripped
SavedPool == {
    Body(51),
    <<" ">> \o Body(51) \o <<"\n">>,
    Rep("x", 26) \o <<"\n">> \o Rep("x", 26),
    Rep("x", 26) \o <<"\r">> \o Rep("x", 26),
    Rep("x", 30) \o <<"\n">> \o Rep("=", 52) \o <<"\n">> \o Rep("x", 5),
    Rep("x", 30) \o <<" ">> \o ChunkMarker \o <<" ">> \o Rep("x", 30)
    }

PersistInit ==
    /\ saved_chunks \in SeqsUpTo(SavedPool, MaxSaved)
    /\ output_file = NoFile
    /\ loaded_chunks = <<>>
    /\ ppc = "ingest"
    /\ SearchIdle /\ ChunkIdle /\ ChatIdle /\ LoadIdle

CallSaveProcessedDocuments ==
    /\ ppc = "ingest"
    /\ output_file' = save_processed_documents(saved_chunks)
    /\ ppc' = "saved"
    /\ UNCHANGED <<saved_chunks, loaded_chunks>>
    /\ UNCHANGED <<searchVars, chunkVars, chatVars, loadVars>>

CallLoadProcessedDocuments ==
    /\ ppc = "saved"
    /\ loaded_chunks' = load_processed_documents(output_file)
    /\ ppc' = "loaded"
    /\ UNCHANGED <<saved_chunks, output_file>>
    /\ UNCHANGED <<searchVars, chunkVars, chatVars, loadVars>>

PersistNext == CallSaveProcessedDocuments \/ CallLoadProcessedDocuments

SpecPersist == PersistInit /\ [][PersistNext]_vars

\* C5: writing N chunks and reading the file back yields N chunks, the i-th
\* read chunk being the i-th written chunk with its surrounding whitespace
\* trimmed.
C5_RoundTrip ==
    ppc = "loaded" =>
        /\ Len(loaded_chunks) = Len(saved_chunks)
        /\ \A i \in DOMAIN loaded_chunks :
              i \in DOMAIN saved_chunks /\ loaded_chunks[i] = strip(saved_chunks[i])

----------------------------------------------------------------------------
(* Specification of the chat driver *)

\* files at the path of the processed documents: none, an empty one, one of
\* blank lines, and the ones save_processed_documents writes
ProcessedFiles ==
    {NoFile, <<"\n", "\n">>}
    \cup {save_processed_documents(cs) : cs \in SeqsUpTo(ChunkPool, MaxChatChunks)}

\* lines input() returns
InputLines == {
    <<>>,
    <<" ", "\t">>,
    Exit,
    <<"E", "x", "I", "T">>,
    <<" ", "e", "x", "i", "t", " ">>,
    <<"e", "x", "i", "t", " ", "a">>,
    <<"a">>,
    <<" ", "B", " ", "a">>,
    <<"z">>
    }

ChatInit ==
    /\ pc = "start"
    /\ OLLAMA_AVAILABLE \in BOOLEAN
    /\ processed_file \in ProcessedFiles
    /\ chat_chunks = <<>>
    /\ line = <<>>
    /\ search_results = <<>>
    /\ response = ""
    /\ raised = "none"
    /\ out = <<>>
    /\ SearchIdle /\ ChunkIdle /\ PersistIdle /\ LoadIdle

ChatNext ==
    \/ MainStart
    \/ MainConnect
    \/ \E l \in InputLines, outcome \in Outcomes : ReadInput(l, outcome)
    \/ \E outcome \in Outcomes : QueryOllama(outcome)

SpecChat == ChatInit /\ [][ChatNext]_vars

----------------------------------------------------------------------------
(* Properties of the chat driver *)

\* l without its leading and trailing whitespace
Trimmed(l) ==
    LET text == {i \in DOMAIN l : l[i] \notin WS}
    IN IF text = {} THEN <<>>
       ELSE SubSeq(l, CHOOSE i \in text : \A j \in text : i <= j,
                      CHOOSE i \in text : \A j \in text : j <= i)

Terminated == pc = "done" /\ out = <<"Goodbye">>
Ignored == pc = "prompt" /\ out = <<>>
Searched == out # <<>> /\ out[1] = "Searching"

ExactlyOneOutcome ==
    /\ Terminated \/ Ignored \/ Searched
    /\ ~(Terminated /\ Ignored)
    /\ ~(Terminated /\ Searched)
    /\ ~(Ignored /\ Searched)

\* the model is about to be invoked only for a query whose search found
\* chunks
InvokeOnlyWithResults ==
    pc = "invoke" =>
        /\ search_results # <<>>
        /\ \A i \in DOMAIN search_results :
              Overlap(line, search_results[i].chunk) > 0

\* C7 as stated: an input line that equals 'exit' case-insensitively ends
\* the session, an empty line is ignored, and any other line is searched;
\* the model is invoked only when the search returned a result.
C7_ThreeOutcomes ==
    /\ [](InvokeOnlyWithResults)
    /\ [][(pc = "prompt" /\ raised' = "none") =>
            /\ ExactlyOneOutcome'
            /\ Terminated' <=> (lower(line') = Exit)
            /\ Ignored' <=> (line' = <<>>)
            /\ Searched' <=> (lower(line') # Exit /\ line' # <<>>)]_vars

\* C7 amended: the three outcomes are decided by the input line with its
\* surrounding whitespace trimmed: 'exit' case-insensitively ends the
\* session, an empty trimmed line is ignored, any other is searched; the
\* model is invoked only when the search returned a result.
C7_ThreeOutcomesTrimmed ==
    /\ [](InvokeOnlyWithResults)
    /\ [][(pc = "prompt" /\ raised' = "none") =>
            /\ ExactlyOneOutcome'
            /\ Terminated' <=> (lower(Trimmed(line')) = Exit)
            /\ Ignored' <=> (Trimmed(line') = <<>>)
            /\ Searched' <=> (lower(Trimmed(line')) # Exit /\ Trimmed(line') # <<>>)]_vars

C7_Witness ==
    /\ Terminated
    /\ raised = "none"
    /\ line = <<"E", "x", "I", "T">>
    /\ response = "ModelAnswer"

InLoop(p) == p \in {"prompt", "invoke"}

\* C8: a failure of the model invocation becomes the answer text, any other
\* exception in an iteration is caught and printed, and in both cases the
\* loop prompts again; the loop is left only by the exit command or by an
\* interrupt, with the farewell printed.
C8_FailuresKeepLoop ==
    [][InLoop(pc) =>
         /\ (pc = "invoke" /\ raised' = "Exception") =>
               /\ pc' = "prompt"
               /\ response' = "ErrorQueryingOllama"
               /\ out' = <<"Question", "Answer", "ErrorQueryingOllama",
                           "ResponseTime", "FoundSections">>
         /\ (pc = "prompt" /\ raised' = "Exception") =>
               /\ pc' = "prompt"
               /\ out' = <<"Error">>
         /\ ~InLoop(pc') =>
               /\ pc' = "done"
               /\ out' = <<"Goodbye">>
               /\ \/ raised' = "KeyboardInterrupt"
                  \/ /\ pc = "prompt"
                     /\ raised' = "none"
                     /\ lower(Trimmed(line')) = Exit]_vars

C8_Witness ==
    /\ pc = "prompt"
    /\ raised = "Exception"
    /\ response = "ErrorQueryingOllama"
    /\ out = <<"Question", "Answer", "ErrorQueryingOllama", "ResponseTime",
               "FoundSections">>

\* what main can print about chunks that are not there
NoChunksMessages == {"ProcessedFileNotFound", "PleaseRunIngest"}

\* C9: when the processed-documents file exists but yields zero chunks, the
\* driver tells the user that no chunks were loaded and returns without the
\* connectivity check and without prompting.
C9_EmptyFileReported ==
    (pc # "start" /\ processed_file # NoFile /\ chat_chunks = <<>>) =>
        /\ pc = "done"
        /\ raised = "none"
        /\ line = <<>>
        /\ \E i \in DOMAIN out : out[i] \in NoChunksMessages

----------------------------------------------------------------------------
(* Specification of the loader: the loop of load_documents over the files  *)
(* that glob found                                                         *)

FileKinds == {"txt", "md", "pdf"}

LoadInit ==
    /\ all_files \in SeqsUpTo(FileKinds, MaxFiles)
    /\ file_pos = 0
    /\ loaded_documents = <<>>
    /\ open_handles = {}
    /\ doc = 0
    /\ lout = <<>>
    /\ lpc = "loop"
    /\ SearchIdle /\ ChunkIdle /\ PersistIdle /\ ChatIdle

LoadNext ==
    \/ \E outcome \in FileOutcomes : ProcessFile(outcome)
    \/ LoadReturn
    \/ Finalize

SpecLoad == LoadInit /\ [][LoadNext]_vars

\* C10: after a file has been processed or skipped, no handle opened for it
\* remains open, also when text extraction raised; the loader goes on with
\* the remaining files.
C10_HandlesReleased ==
    /\ \A f \in 1..file_pos : f \notin open_handles
    /\ lpc = "returned" => file_pos = Len(all_files)

====
